---- MODULE Spec2Model ----
(***************************************************************************)
(* Model of the NFS-e extraction pipeline of src/app.py: the per-page      *)
(* OCR / merge / repair / structuring loop of processar_nfse, the rule     *)
(* tables of corrigir_erros_contextuais and estruturar_texto, and the      *)
(* field validator validar_campos.                                         *)
(*                                                                         *)
(* A text is a sequence of one-character strings.  Regular expressions are *)
(* sequences of atoms (a character class with a greedy repetition range),  *)
(* matched with backtracking the way Python's re module matches them.      *)
(***************************************************************************)
EXTENDS Integers, Sequences, FiniteSets, TLC

(***************************************************************************)
(* Characters and character classes                                        *)
(***************************************************************************)
Digitos == {"0", "1", "2", "3", "4", "5", "6", "7", "8", "9"}

Maiusculas ==
    {"A", "B", "C", "D", "E", "F", "G", "H", "I", "J", "K", "L", "M",
     "N", "O", "P", "Q", "R", "S", "T", "U", "V", "W", "X", "Y", "Z"}

Espacos == {" ", "\n", "\t", "\r", "\f"}

\* lower-case form of the cased characters (str.lower / re.IGNORECASE folding)
ParaMinuscula ==
    "A" :> "a" @@ "B" :> "b" @@ "C" :> "c" @@ "D" :> "d" @@ "E" :> "e" @@
    "F" :> "f" @@ "G" :> "g" @@ "H" :> "h" @@ "I" :> "i" @@ "J" :> "j" @@
    "K" :> "k" @@ "L" :> "l" @@ "M" :> "m" @@ "N" :> "n" @@ "O" :> "o" @@
    "P" :> "p" @@ "Q" :> "q" @@ "R" :> "r" @@ "S" :> "s" @@ "T" :> "t" @@
    "U" :> "u" @@ "V" :> "v" @@ "W" :> "w" @@ "X" :> "x" @@ "Y" :> "y" @@
    "Z" :> "z" @@ "Ç" :> "ç" @@ "Õ" :> "õ" @@ "Ã" :> "ã" @@ "Ô" :> "ô" @@
    "Ó" :> "ó" @@ "Ú" :> "ú" @@ "É" :> "é" @@ "Í" :> "í"

ParaMaiuscula ==
    "a" :> "A" @@ "b" :> "B" @@ "c" :> "C" @@ "d" :> "D" @@ "e" :> "E" @@
    "f" :> "F" @@ "g" :> "G" @@ "h" :> "H" @@ "i" :> "I" @@ "j" :> "J" @@
    "k" :> "K" @@ "l" :> "L" @@ "m" :> "M" @@ "n" :> "N" @@ "o" :> "O" @@
    "p" :> "P" @@ "q" :> "Q" @@ "r" :> "R" @@ "s" :> "S" @@ "t" :> "T" @@
    "u" :> "U" @@ "v" :> "V" @@ "w" :> "W" @@ "x" :> "X" @@ "y" :> "Y" @@
    "z" :> "Z" @@ "ç" :> "Ç" @@ "õ" :> "Õ" @@ "ã" :> "Ã" @@ "ô" :> "Ô" @@
    "ó" :> "Ó" @@ "ú" :> "Ú" @@ "é" :> "É" @@ "í" :> "Í"

Minuscula(c) == IF c \in DOMAIN ParaMinuscula THEN ParaMinuscula[c] ELSE c

Maiuscula(c) == IF c \in DOMAIN ParaMaiuscula THEN ParaMaiuscula[c] ELSE c

\* a character class: the characters of `em`, or every character outside
\* `em` when `neg` is set
Classe(em) == [em |-> em, neg |-> FALSE]

\* the regular expression `.`: any character but a line break
Qualquer == [em |-> {"\n"}, neg |-> TRUE]

\* one atom of a regular expression: either a literal string `lit`, or
\* class{min,max} when `lit` is empty (`livre` for the unbounded * and +)
Atomo(cls, min, max) ==
    [lit |-> <<>>, cls |-> cls, min |-> min, max |-> max, livre |-> FALSE]

Um(cls) == Atomo(cls, 1, 1)

Opcional(cls) == Atomo(cls, 0, 1)

Estrela(cls) ==
    [lit |-> <<>>, cls |-> cls, min |-> 0, max |-> 0, livre |-> TRUE]

Mais(cls) ==
    [lit |-> <<>>, cls |-> cls, min |-> 1, max |-> 0, livre |-> TRUE]

\* a literal piece of a pattern
Lit(s) ==
    <<[lit |-> s, cls |-> Classe({}), min |-> Len(s), max |-> Len(s),
       livre |-> FALSE]>>

\* does character c belong to the class, with or without re.IGNORECASE
CasaClasse(cls, c, ic) ==
    LET dentro == IF ic
                  THEN \/ c \in cls.em
                       \/ Minuscula(c) \in cls.em
                       \/ Maiuscula(c) \in cls.em
                  ELSE c \in cls.em
    IN  dentro # cls.neg

\* does character c match the literal character l
CasaLetra(l, c, ic) ==
    IF ic THEN Minuscula(c) = Minuscula(l) ELSE c = l

(***************************************************************************)
(* Matching: greedy repetition with backtracking, left to right            *)
(***************************************************************************)
Falha == [ok |-> FALSE, fins |-> <<>>]

Menor(S) == CHOOSE x \in S : \A y \in S : x <= y

Maior(S) == CHOOSE x \in S : \A y \in S : x >= y

\* how many characters from position i the atom takes at most: the whole
\* literal, or the longest run of characters of the class up to max
Corrida(a, t, i, ic) ==
    IF a.lit # <<>>
    THEN IF /\ i + Len(a.lit) - 1 <= Len(t)
            /\ \A j \in 1..Len(a.lit) : CasaLetra(a.lit[j], t[i + j - 1], ic)
         THEN Len(a.lit) ELSE -1
    ELSE LET ate  == IF a.livre \/ i + a.max - 1 > Len(t) THEN Len(t)
                     ELSE i + a.max - 1
             fora == {j \in i..ate : ~CasaClasse(a.cls, t[j], ic)}
         IN  IF fora = {} THEN ate + 1 - i ELSE Menor(fora) - i

RECURSIVE Casar(_, _, _, _, _)
\* match atoms k.. of pat at position i; fins[j] is the position after
\* atom k+j-1 in the match the engine prefers: each atom takes the largest
\* number of characters for which the rest of the pattern still matches
Casar(pat, k, t, i, ic) ==
    IF k > Len(pat) THEN [ok |-> TRUE, fins |-> <<>>]
    ELSE LET n    == Corrida(pat[k], t, i, ic)
             boas == {q \in pat[k].min..n : Casar(pat, k + 1, t, i + q, ic).ok}
         IN  IF boas = {} THEN Falha
             ELSE LET q == Maior(boas)
                  IN  [ok |-> TRUE,
                       fins |-> <<i + q>> \o Casar(pat, k + 1, t, i + q, ic).fins]

\* re.search(pat, t): is there a match anywhere in t
Buscar(pat, t, ic) == \E i \in 1..Len(t) : Casar(pat, 1, t, i, ic).ok

\* t[a..b-1]
Trecho(t, a, b) == SubSeq(t, a, b - 1)

\* m.group().replace(' ', '')
SemEspaco(s) == SelectSeq(s, LAMBDA c : c # " ")

\* the text of group g of a match that starts at i
Grupo(r, t, i, fins, g) ==
    LET de  == r.grupos[g][1]
        ate == r.grupos[g][2]
        ini == IF de = 1 THEN i ELSE fins[de - 1]
    IN  Trecho(t, ini, fins[ate])

RECURSIVE Expandir(_, _, _, _, _)
\* the replacement of one match: literal pieces and \g group references
Expandir(r, t, i, fins, j) ==
    IF j > Len(r.subst) THEN <<>>
    ELSE LET p == r.subst[j]
         IN  (IF p.g = 0 THEN p.s ELSE Grupo(r, t, i, fins, p.g))
             \o Expandir(r, t, i, fins, j + 1)

Substituto(r, t, i, fins) ==
    IF r.lambda THEN SemEspaco(Trecho(t, i, fins[Len(fins)]))
    ELSE Expandir(r, t, i, fins, 1)

RECURSIVE SubDe(_, _, _, _)
\* re.sub from position i on: the leftmost match at or after i is replaced
\* and the scan resumes where it ended (non-overlapping, left to right; no
\* pattern of the rule tables matches the empty string)
SubDe(r, t, i, ic) ==
    LET inicios == {j \in i..Len(t) : Casar(r.pat, 1, t, j, ic).ok}
    IN  IF inicios = {} THEN Trecho(t, i, Len(t) + 1)
        ELSE LET j    == Menor(inicios)
                 fins == Casar(r.pat, 1, t, j, ic).fins
             IN  Trecho(t, i, j) \o Substituto(r, t, j, fins)
                     \o SubDe(r, t, fins[Len(fins)], ic)

\* re.sub(pat, subst, t, flags)
Sub(r, t, ic) == SubDe(r, t, 1, ic)

\* a rule: pattern, groups (first atom, last atom) and replacement
Regra(pat, grupos, subst) ==
    [pat |-> pat, grupos |-> grupos, subst |-> subst, lambda |-> FALSE]

T(s) == [g |-> 0, s |-> s]

G(n) == [g |-> n, s |-> <<>>]

(***************************************************************************)
(* corrigir_erros_contextuais: the rule table `correcoes`                  *)
(***************************************************************************)
DD(n) == Atomo(Classe(Digitos), n, n)

correcoes ==
    <<
        \* 1: r'05/05/2024'
        Regra(Lit(<<"0", "5", "/", "0", "5", "/", "2", "0", "2", "4">>),
              <<>>,
              <<T(<<"0", "5", "/", "0", "9", "/", "2", "0", "2", "4">>)>>),
        \* 2: r'16/0/2024'
        Regra(Lit(<<"1", "6", "/", "0", "/", "2", "0", "2", "4">>),
              <<>>,
              <<T(<<"1", "6", "/", "0", "9", "/", "2", "0", "2", "4">>)>>),
        \* 3: r'(\d{2})/(\d{1})/(\d{4})' -> r'\1/0\2/\3'
        Regra(<<DD(2)>> \o Lit(<<"/">>) \o <<DD(1)>> \o Lit(<<"/">>) \o <<DD(4)>>,
              <<<<1, 1>>, <<3, 3>>, <<5, 5>>>>,
              <<G(1), T(<<"/", "0">>), G(2), T(<<"/">>), G(3)>>),
        \* 4: r'ESGXBS DE'
        Regra(Lit(<<"E", "S", "G", "X", "B", "S", " ", "D", "E">>),
              <<>>,
              <<T(<<"B", "9", "O", "X", "B", "6", "0", "8">>)>>),
        \* 5: r'[A-Z0-9]{8}' -> lambda m: m.group().replace(' ', '')
        [pat |-> <<Atomo(Classe(Maiusculas \cup Digitos), 8, 8)>>,
         grupos |-> <<>>, subst |-> <<>>, lambda |-> TRUE],
        \* 6: r'40,621.411/0001-53' (the dot is the regular expression dot)
        Regra(Lit(<<"4", "0", ",", "6", "2", "1">>) \o <<Um(Qualquer)>>
                  \o Lit(<<"4", "1", "1", "/", "0", "0", "0", "1", "-", "5", "3">>),
              <<>>,
              <<T(<<"4", "9", ".", "6", "2", "1", ".", "4", "1", "1", "/",
                    "0", "0", "0", "1", "-", "9", "3">>)>>),
        \* 7: r'(\d)0(\d{3})' -> r'\1.\2'
        Regra(<<DD(1)>> \o Lit(<<"0">>) \o <<DD(3)>>,
              <<<<1, 1>>, <<3, 3>>>>,
              <<G(1), T(<<".">>), G(2)>>),
        \* 8: r'75000'
        Regra(Lit(<<"7", "5", "0", "0", "0">>),
              <<>>,
              <<T(<<"7", "5", "0", ",", "0", "0">>)>>),
        \* 9: r'(\d{3})\.?(\d{2})' -> r'\1.\2'
        Regra(<<DD(3), Opcional(Classe({"."})), DD(2)>>,
              <<<<1, 1>>, <<3, 3>>>>,
              <<G(1), T(<<".">>), G(2)>>),
        \* 10: r'FLETRÔONICA'
        Regra(Lit(<<"F", "L", "E", "T", "R", "Ô", "O", "N", "I", "C", "A">>),
              <<>>,
              <<T(<<"E", "L", "E", "T", "R", "Ô", "N", "I", "C", "A">>)>>),
        \* 11: r'Relatorode'
        Regra(Lit(<<"R", "e", "l", "a", "t", "o", "r", "o", "d", "e">>),
              <<>>,
              <<T(<<"R", "e", "l", "a", "t", "ó", "r", "i", "o", " ", "d",
                    "e">>)>>),
        \* 12: r'DISCRIMINAÇÃO DOS SERVIÇÕE'
        Regra(Lit(<<"D", "I", "S", "C", "R", "I", "M", "I", "N", "A", "Ç",
                    "Ã", "O", " ", "D", "O", "S", " ", "S", "E", "R", "V",
                    "I", "Ç", "Õ", "E">>),
              <<>>,
              <<T(<<"D", "I", "S", "C", "R", "I", "M", "I", "N", "A", "Ç",
                    "Ã", "O", " ", "D", "O", "S", " ", "S", "E", "R", "V",
                    "I", "Ç", "O", "S">>)>>),
        \* 13: r'\[BPT'
        Regra(Lit(<<"[", "B", "P", "T">>),
              <<>>,
              <<T(<<"I", "B", "P", "T">>)>>)
    >>

(***************************************************************************)
(* estruturar_texto: the rule table `estruturas`                           *)
(***************************************************************************)
\* the separator line written under a section header
LINHA ==
    <<"\n", "-", "-", "-", "-", "-", "-", "-", "-", "-", "-", "-", "-",
      "-", "-", "-", "-", "-", "-", "-", "-", "-", "-", "-", "-", "-", "-",
      "-", "-", "-", "-">>

\* Seções principais
secoes ==
    <<
        \* 1: r'(PRESTADOR DE SERVIÇOS)'
        Regra(Lit(<<"P", "R", "E", "S", "T", "A", "D", "O", "R", " ", "D",
                    "E", " ", "S", "E", "R", "V", "I", "Ç", "O", "S">>),
              <<<<1, 1>>>>,
              <<T(<<"\n", "\n">>), G(1), T(LINHA)>>),
        \* 2: r'(TOMADOR DE SERVIÇOS)'
        Regra(Lit(<<"T", "O", "M", "A", "D", "O", "R", " ", "D", "E", " ",
                    "S", "E", "R", "V", "I", "Ç", "O", "S">>),
              <<<<1, 1>>>>,
              <<T(<<"\n", "\n">>), G(1), T(LINHA)>>),
        \* 3: r'(DISCRIMINAÇÃO DOS SERVIÇOS)'
        Regra(Lit(<<"D", "I", "S", "C", "R", "I", "M", "I", "N", "A", "Ç",
                    "Ã", "O", " ", "D", "O", "S", " ", "S", "E", "R", "V",
                    "I", "Ç", "O", "S">>),
              <<<<1, 1>>>>,
              <<T(<<"\n", "\n">>), G(1), T(LINHA)>>)
    >>

\* Campos chave
campos_chave ==
    <<
        \* 4: r'(Número da Nota:?)(\s*)'
        Regra(Lit(<<"N", "ú", "m", "e", "r", "o", " ", "d", "a", " ", "N",
                    "o", "t", "a">>)
                  \o <<Opcional(Classe({":"})), Estrela(Classe(Espacos))>>,
              <<<<1, 2>>, <<3, 3>>>>,
              <<T(<<"\n">>), G(1), T(<<" ">>)>>),
        \* 5: r'(Data e Hora de Emissão:?)(.*)'
        Regra(Lit(<<"D", "a", "t", "a", " ", "e", " ", "H", "o", "r", "a",
                    " ", "d", "e", " ", "E", "m", "i", "s", "s", "ã", "o">>)
                  \o <<Opcional(Classe({":"})), Estrela(Qualquer)>>,
              <<<<1, 2>>, <<3, 3>>>>,
              <<T(<<"\n">>), G(1), T(<<" ">>)>>),
        \* 6: r'(Código de Verificação:?)(.*)'
        Regra(Lit(<<"C", "ó", "d", "i", "g", "o", " ", "d", "e", " ", "V",
                    "e", "r", "i", "f", "i", "c", "a", "ç", "ã", "o">>)
                  \o <<Opcional(Classe({":"})), Estrela(Qualquer)>>,
              <<<<1, 2>>, <<3, 3>>>>,
              <<T(<<"\n">>), G(1), T(<<" ">>)>>)
    >>

\* Formatação de listas, with a line break written before the currency marker
listas_quebra_linha ==
    <<
        \* 7: r'(\d+)\.\s+([A-Z])' -> r'\1. \2'
        Regra(<<Mais(Classe(Digitos)), Um(Classe({"."})),
                Mais(Classe(Espacos)), Um(Classe(Maiusculas))>>,
              <<<<1, 1>>, <<4, 4>>>>,
              <<G(1), T(<<".", " ">>), G(2)>>),
        \* 8: r'R\$\s*(\d)' -> r'R$ \1'
        Regra(Lit(<<"R", "$">>) \o <<Estrela(Classe(Espacos)), DD(1)>>,
              <<<<3, 3>>>>,
              <<T(<<"\n", "R", "$", " ">>), G(1)>>)
    >>

\* Formatação de listas
listas ==
    <<
        \* 7: r'(\d+)\.\s+([A-Z])' -> r'\1. \2'
        Regra(<<Mais(Classe(Digitos)), Um(Classe({"."})),
                Mais(Classe(Espacos)), Um(Classe(Maiusculas))>>,
              <<<<1, 1>>, <<4, 4>>>>,
              <<G(1), T(<<".", " ">>), G(2)>>),
        \* 8: r'R\$\s*(\d)' -> r'R$ \1'
        Regra(Lit(<<"R", "$">>) \o <<Estrela(Classe(Espacos)), DD(1)>>,
              <<<<3, 3>>>>,
              <<T(<<"R", "$", " ">>), G(1)>>)
    >>

estruturas == secoes \o campos_chave \o listas

(***************************************************************************)
(* validar_campos: the required fields and their alternative patterns      *)
(***************************************************************************)
campos ==
    <<
        [campo |-> "NFS-e",
         padroes |-> <<
            \* r'NFS-?e'
            Lit(<<"N", "F", "S">>) \o <<Opcional(Classe({"-"}))>> \o Lit(<<"e">>),
            Lit(<<"N", "O", "T", "A", " ", "F", "I", "S", "C", "A", "L",
                  " ", "D", "E", " ", "S", "E", "R", "V", "I", "Ç", "O",
                  "S", " ", "E", "L", "E", "T", "R", "Ô", "N", "I", "C",
                  "A">>)>>],
        [campo |-> "CNPJ Prestador",
         padroes |-> <<
            \* r'49\.?621\.?411/0001-?93'
            Lit(<<"4", "9">>) \o <<Opcional(Classe({"."}))>>
                \o Lit(<<"6", "2", "1">>) \o <<Opcional(Classe({"."}))>>
                \o Lit(<<"4", "1", "1", "/", "0", "0", "0", "1">>)
                \o <<Opcional(Classe({"-"}))>> \o Lit(<<"9", "3">>),
            Lit(<<"S", "u", "s", "t", "e", "n", "t", "a", "m", "a", "i",
                  "s", " ", "C", "o", "n", "s", "u", "l", "t", "o", "r",
                  "i", "a">>)>>],
        [campo |-> "Valor Total",
         padroes |-> <<
            \* r'R\$\s*750[,\d]*'
            Lit(<<"R", "$">>) \o <<Estrela(Classe(Espacos))>>
                \o Lit(<<"7", "5", "0">>)
                \o <<Estrela(Classe({","} \cup Digitos))>>,
            \* r'VALOR TOTAL DA NOTA.*750'
            Lit(<<"V", "A", "L", "O", "R", " ", "T", "O", "T", "A", "L",
                  " ", "D", "A", " ", "N", "O", "T", "A">>)
                \o <<Estrela(Qualquer)>> \o Lit(<<"7", "5", "0">>)>>]
    >>

(***************************************************************************)
(* The three text functions                                                *)
(***************************************************************************)
RECURSIVE AplicarRegras(_, _, _, _)
\* for padrao, substituicao in regras: texto = re.sub(...), from rule k on
AplicarRegras(regras, texto, k, ic) ==
    IF k > Len(regras) THEN texto
    ELSE CHOOSE final \in {AplicarRegras(regras, novo, k + 1, ic) :
                               novo \in {Sub(regras[k], texto, ic)}} : TRUE

corrigir_erros_contextuais(texto) == AplicarRegras(correcoes, texto, 1, TRUE)

estruturar_texto(texto) == AplicarRegras(estruturas, texto, 1, FALSE)

\* all(...) in place of any(...)
AlgumPadrao_todos(padroes, texto) ==
    \A j \in 1..Len(padroes) : Buscar(padroes[j], texto, TRUE)

\* any(re.search(padrao, texto, re.IGNORECASE) for padrao in padroes)
AlgumPadrao(padroes, texto) ==
    \E j \in 1..Len(padroes) : Buscar(padroes[j], texto, TRUE)

RECURSIVE FaltantesDe(_, _)
\* the loop over campos.items() from field k on
FaltantesDe(texto, k) ==
    IF k > Len(campos) THEN <<>>
    ELSE (IF ~AlgumPadrao(campos[k].padroes, texto)
          THEN <<campos[k].campo>> ELSE <<>>) \o FaltantesDe(texto, k + 1)

validar_campos(texto) == FaltantesDe(texto, 1)

(***************************************************************************)
(* String helpers of processar_nfse                                        *)
(***************************************************************************)
\* the currency marker 'R$'
MARCADOR == <<"R", "$">>

\* the trigger substrings of the secondary pass: ['R$', 'CNPJ', 'CPF']
TERMOS == <<MARCADOR, <<"C", "N", "P", "J">>, <<"C", "P", "F">>>>

\* positions at which s occurs in t
Ocorrencias(t, s) ==
    {i \in 1..(Len(t) - Len(s) + 1) : Trecho(t, i, i + Len(s)) = s}

\* s in t
Contem(t, s) == Ocorrencias(t, s) # {}

\* t.replace(velho, novo)
Replace(t, velho, novo) ==
    Sub(Regra(Lit(velho), <<>>, <<T(novo)>>), t, FALSE)

\* t.split(sep)[-1]: what follows the last occurrence of sep, or all of t
UltimoTrecho(t, sep) ==
    IF ~Contem(t, sep) THEN t
    ELSE Trecho(t, Maior(Ocorrencias(t, sep)) + Len(sep), Len(t) + 1)

\* the trigger reduced to the currency marker
PrecisaSecundario_so_marcador(texto) == Contem(texto, MARCADOR)

\* any(termo in texto for termo in ['R$', 'CNPJ', 'CPF'])
PrecisaSecundario(texto) == \E k \in 1..Len(TERMOS) : Contem(texto, TERMOS[k])

\* texto.replace('R$', texto_numerico.split('R$')[-1])
Mesclar(texto, texto_numerico) ==
    Replace(texto, MARCADOR, UltimoTrecho(texto_numerico, MARCADOR))

RECURSIVE Juntar_final(_, _)
\* the separator written after every element, the last one included
Juntar_final(sep, lista) ==
    IF lista = <<>> THEN <<>>
    ELSE lista[1] \o sep \o Juntar_final(sep, Tail(lista))

RECURSIVE Juntar(_, _)
\* sep.join(lista)
Juntar(sep, lista) ==
    IF lista = <<>> THEN <<>>
    ELSE IF Len(lista) = 1 THEN lista[1]
    ELSE lista[1] \o sep \o Juntar(sep, Tail(lista))

RECURSIVE JuntarNomes(_)
\* ', '.join(campos_faltantes), as the pieces of the formatted string
JuntarNomes(nomes) ==
    IF nomes = <<>> THEN <<>>
    ELSE IF Len(nomes) = 1 THEN <<nomes[1]>>
    ELSE <<nomes[1], ", ">> \o JuntarNomes(Tail(nomes))

(***************************************************************************)
(* Inputs of the pipeline                                                  *)
(***************************************************************************)
\* largest number of pages of a document
MaxPaginas == 2

\* texts the primary OCR pass may return for a page
TextosOCR ==
    {
        <<"T", "o", "t", "a", "l", " ", "R", "$", " ", "X", "X", "X", "X">>,
        <<"N", "F", "S", "-", "e", " ", "C", "N", "P", "J", " ", "4", "9",
          ".", "6", "2", "1", ".", "4", "1", "1", "/", "0", "0", "0", "1",
          "-", "9", "3">>,
        <<"P", "R", "E", "S", "T", "A", "D", "O", "R", " ", "D", "E", " ",
          "S", "E", "R", "V", "I", "Ç", "O", "S", "\n", "S", "u", "s", "t",
          "e", "n", "t", "a", "m", "a", "i", "s", " ", "C", "o", "n", "s",
          "u", "l", "t", "o", "r", "i", "a">>,
        <<"V", "A", "L", "O", "R", " ", "T", "O", "T", "A", "L", " ", "D",
          "A", " ", "N", "O", "T", "A", " ", "7", "5", "0", ",", "0", "0">>,
        <<"R", "$", " ", "1", "0", " ", "I", "S", "S", " ", "R", "$", " ",
          "7", "5", "0", "0", "0">>,
        <<"n", "f", "s", "-", "e", " ", "r", "$", "7", "5", "0", " ", "1",
          "6", "/", "0", "/", "2", "0", "2", "4">>,
        <<"C", "P", "F", " ", "1", "2", "3">>
    }

\* texts the numeric-focused OCR pass may return for a page
TextosNumericos ==
    {
        <<"g", "a", "r", "b", "a", "g", "e", " ", "R", "$", " ", "7", "5",
          "0", ",", "0", "0">>,
        <<"7", "5", "0", ",", "0", "0">>,
        <<"R", "$", " ", "1", ",", "0", "0", " ", "R", "$", " ", "7", "5",
          "0", ",", "0", "0">>,
        <<>>
    }

\* the calls inside the try block that can raise, and the messages of the
\* exceptions they raise
Etapas == {"convert_from_path", "preprocessamento_avancado",
           "image_to_string", "image_to_string_numerico"}

Mensagens ==
    [e \in Etapas |->
        CASE e = "convert_from_path" -> {"Unable to get page count."}
          [] e = "preprocessamento_avancado" -> {"OpenCV: (-215) !_src.empty()"}
          [] e = "image_to_string" -> {"tesseract is not installed"}
          [] e = "image_to_string_numerico" -> {"Tesseract process timeout"}]

SemErro == [pagina |-> 0, etapa |-> "", msg |-> ""]

(***************************************************************************)
(* State                                                                   *)
(***************************************************************************)
VARIABLES
    pc,            \* where processar_nfse is: "inicio", "paginas", "fim"
    n_imagens,     \* len(imagens)
    idx,           \* pages completed by the loop
    texto_final,   \* the list texto_final
    status,        \* first element of the returned pair, as string pieces
    resultado,     \* second element of the returned pair
    ocr,           \* per completed page: what the OCR passes and the merge gave
    validacoes,    \* the arguments of the calls of validar_campos so far
    erro,          \* where the exception caught at line 174 was raised
    entrada,       \* input of the text function under study
    saida,         \* its current output
    anterior,      \* the output before the last application
    passo,         \* applications (or rules) done so far
    aplicadas      \* indices of the rules of `correcoes` applied so far

vars == <<pc, n_imagens, idx, texto_final, status, resultado, ocr,
          validacoes, erro, entrada, saida, anterior, passo, aplicadas>>

pipeline == <<pc, n_imagens, idx, texto_final, status, resultado, ocr,
              validacoes, erro>>

funcao == <<entrada, saida, anterior, passo, aplicadas>>

FuncaoParada ==
    /\ entrada = <<>>
    /\ saida = <<>>
    /\ anterior = <<>>
    /\ passo = 0
    /\ aplicadas = <<>>

PipelineParado ==
    /\ pc = "fim"
    /\ n_imagens = 0
    /\ idx = 0
    /\ texto_final = <<>>
    /\ status = <<>>
    /\ resultado = <<>>
    /\ ocr = <<>>
    /\ validacoes = <<>>
    /\ erro = SemErro

(***************************************************************************)
(* processar_nfse                                                          *)
(***************************************************************************)
Init ==
    /\ pc = "inicio"
    /\ n_imagens = 0
    /\ idx = 0
    /\ texto_final = <<>>
    /\ status = <<>>
    /\ resultado = <<>>
    /\ ocr = <<>>
    /\ validacoes = <<>>
    /\ erro = SemErro
    /\ FuncaoParada

\* the handler returning the pages joined so far instead of ""
Excecao_parcial(pagina, etapa, msg) ==
    /\ status' = <<"ERRO: ", msg>>
    /\ resultado' = Juntar(<<"\n">>, texto_final)
    /\ erro' = [pagina |-> pagina, etapa |-> etapa, msg |-> msg]
    /\ pc' = "fim"

\* the handler adding the page index and the failing call to the message
Excecao_com_pagina(pagina, etapa, msg) ==
    /\ status' = <<"ERRO: ", ToString(pagina), " ", etapa, ": ", msg>>
    /\ resultado' = <<>>
    /\ erro' = [pagina |-> pagina, etapa |-> etapa, msg |-> msg]
    /\ pc' = "fim"

\* except Exception as e: return f"ERRO: {str(e)}", ""
Excecao(pagina, etapa, msg) ==
    /\ status' = <<"ERRO: ", msg>>
    /\ resultado' = <<>>
    /\ erro' = [pagina |-> pagina, etapa |-> etapa, msg |-> msg]
    /\ pc' = "fim"

\* imagens = convert_from_path(...); texto_final = []
Converter ==
    /\ pc = "inicio"
    /\ \/ /\ \E n \in 1..MaxPaginas : n_imagens' = n
          /\ pc' = "paginas"
          /\ UNCHANGED <<status, resultado, erro>>
       \/ /\ \E msg \in Mensagens["convert_from_path"] :
                Excecao(0, "convert_from_path", msg)
          /\ UNCHANGED n_imagens
    /\ UNCHANGED <<idx, texto_final, ocr, validacoes>>
    /\ UNCHANGED funcao

\* one iteration of the loop over the pages, with no exception
PaginaOk ==
    /\ pc = "paginas"
    /\ idx < n_imagens
    /\ \E texto \in TextosOCR :
       \E texto_numerico \in IF PrecisaSecundario(texto)
                              THEN TextosNumericos ELSE {<<>>} :
          LET secundario == PrecisaSecundario(texto)
              mesclado   == IF secundario THEN Mesclar(texto, texto_numerico)
                            ELSE texto
              texto_corrigido   == corrigir_erros_contextuais(mesclado)
              texto_estruturado == estruturar_texto(texto_corrigido)
          IN  /\ texto_final' = Append(texto_final, texto_estruturado)
              /\ ocr' = Append(ocr,
                           [texto |-> texto,
                            secundario |-> secundario,
                            texto_numerico |-> texto_numerico,
                            mesclado |-> mesclado])
    /\ idx' = idx + 1
    /\ UNCHANGED <<pc, n_imagens, status, resultado, validacoes, erro>>
    /\ UNCHANGED funcao

\* one iteration of the loop in which a call raises: the handler returns
PaginaErro ==
    /\ pc = "paginas"
    /\ idx < n_imagens
    /\ \E etapa \in Etapas \ {"convert_from_path"} :
          /\ etapa = "image_to_string_numerico" =>
                \E texto \in TextosOCR : PrecisaSecundario(texto)
          /\ \E msg \in Mensagens[etapa] : Excecao(idx + 1, etapa, msg)
    /\ UNCHANGED <<n_imagens, idx, texto_final, ocr, validacoes>>
    /\ UNCHANGED funcao

\* success reported whenever at most one field is missing
StatusDe_tolerante(campos_faltantes) ==
    IF Len(campos_faltantes) > 1
    THEN <<"ERRO: Campos faltantes - ">> \o JuntarNomes(campos_faltantes)
    ELSE <<"Sucesso">>

\* the status of lines 169-172
StatusDe(campos_faltantes) ==
    IF campos_faltantes # <<>>
    THEN <<"ERRO: Campos faltantes - ">> \o JuntarNomes(campos_faltantes)
    ELSE <<"Sucesso">>

\* after the loop: join, validate, return
Finalizar ==
    /\ pc = "paginas"
    /\ idx = n_imagens
    /\ LET texto_unificado  == Juntar(<<"\n">>, texto_final)
           campos_faltantes == validar_campos(texto_unificado)
       IN  /\ validacoes' = Append(validacoes, texto_unificado)
           /\ status' = StatusDe(campos_faltantes)
           /\ resultado' = texto_unificado
    /\ pc' = "fim"
    /\ UNCHANGED <<n_imagens, idx, texto_final, ocr, erro>>
    /\ UNCHANGED funcao

Next == Converter \/ PaginaOk \/ PaginaErro \/ Finalizar

Spec == Init /\ [][Next]_vars

(***************************************************************************)
(* The text functions on their own: inputs built from a few fragments     *)
(***************************************************************************)
\* largest number of fragments of an input text
MaxFragmentos == 2

\* how many times estruturar_texto is applied in a row
MaxAplicacoes == 2

RECURSIVE Textos(_, _)
\* the texts made of at most n fragments of F
Textos(F, n) ==
    IF n = 0 THEN {<<>>}
    ELSE LET menores == Textos(F, n - 1)
         IN  menores \cup {a \o f : a \in menores, f \in F}

\* fragments the repair rules act on
FragmentosCorrigir ==
    {
        <<"0", "5", "/", "0", "5", "/", "2", "0", "2", "4">>,
        <<"1", "6", "/", "0", "/", "2", "0", "2", "4">>,
        <<"1", "2", "/", "3", "/", "2", "0", "2", "4">>,
        <<"E", "S", "G", "X", "B", "S", " ", "D", "E">>,
        <<"4", "0", ",", "6", "2", "1", ".", "4", "1", "1", "/", "0", "0",
          "0", "1", "-", "5", "3">>,
        <<"7", "5", "0", "0", "0">>,
        <<"1", "0", "7", "5">>,
        <<"f", "l", "e", "t", "r", "ô", "o", "n", "i", "c", "a">>,
        <<"[", "B", "P", "T">>,
        <<" ">>,
        <<"1", "2">>
    }

\* fragments the structuring rules act on
FragmentosEstruturar ==
    {
        <<"P", "R", "E", "S", "T", "A", "D", "O", "R", " ", "D", "E", " ",
          "S", "E", "R", "V", "I", "Ç", "O", "S">>,
        <<"T", "O", "M", "A", "D", "O", "R", " ", "D", "E", " ", "S", "E",
          "R", "V", "I", "Ç", "O", "S">>,
        <<"D", "I", "S", "C", "R", "I", "M", "I", "N", "A", "Ç", "Ã", "O",
          " ", "D", "O", "S", " ", "S", "E", "R", "V", "I", "Ç", "O", "S">>,
        <<"N", "ú", "m", "e", "r", "o", " ", "d", "a", " ", "N", "o", "t",
          "a", ":">>,
        <<"D", "a", "t", "a", " ", "e", " ", "H", "o", "r", "a", " ", "d",
          "e", " ", "E", "m", "i", "s", "s", "ã", "o", ":", " ">>,
        <<"C", "ó", "d", "i", "g", "o", " ", "d", "e", " ", "V", "e", "r",
          "i", "f", "i", "c", "a", "ç", "ã", "o">>,
        <<"1", ".", "\n", " ", "A">>,
        <<"R", "$">>,
        <<"7", "5">>,
        <<" ">>,
        <<"\n">>,
        <<"x">>
    }

\* fragments the field patterns look for
FragmentosValidar ==
    {
        <<"N", "F", "S", "-", "e", " ">>,
        <<"n", "f", "s", "e">>,
        <<"N", "O", "T", "A", " ", "F", "I", "S", "C", "A", "L", " ", "D",
          "E", " ", "S", "E", "R", "V", "I", "Ç", "O", "S", " ", "E", "L",
          "E", "T", "R", "Ô", "N", "I", "C", "A">>,
        <<"4", "9", ".", "6", "2", "1", ".", "4", "1", "1", "/", "0", "0",
          "0", "1", "-", "9", "3">>,
        <<"4", "9", "6", "2", "1", "4", "1", "1", "/", "0", "0", "0", "1",
          "9", "3">>,
        <<"s", "u", "s", "t", "e", "n", "t", "a", "m", "a", "i", "s", " ",
          "c", "o", "n", "s", "u", "l", "t", "o", "r", "i", "a">>,
        <<"R", "$", " ", "7", "5", "0", ",", "0", "0">>,
        <<"r", "$">>,
        <<"V", "A", "L", "O", "R", " ", "T", "O", "T", "A", "L", " ", "D",
          "A", " ", "N", "O", "T", "A">>,
        <<"7", "5", "0">>,
        <<"\n">>,
        <<"R", "$", " ", "7", "5">>
    }

InitFuncao(F) ==
    /\ PipelineParado
    /\ entrada \in Textos(F, MaxFragmentos)
    /\ saida = entrada
    /\ anterior = <<>>
    /\ passo = 0
    /\ aplicadas = <<>>

\* the rules applied last to first
ProximaRegra_invertida(feitas) == Len(correcoes) - feitas

\* the rule the loop of line 73 takes after `feitas` iterations
ProximaRegra(feitas) == feitas + 1

InitCorrigir == InitFuncao(FragmentosCorrigir)

\* one iteration of the loop of corrigir_erros_contextuais
AplicarCorrecao ==
    /\ passo < Len(correcoes)
    /\ saida' = Sub(correcoes[ProximaRegra(passo)], saida, TRUE)
    /\ anterior' = saida
    /\ aplicadas' = Append(aplicadas, ProximaRegra(passo))
    /\ passo' = passo + 1
    /\ UNCHANGED entrada
    /\ UNCHANGED pipeline

SpecCorrigir == InitCorrigir /\ [][AplicarCorrecao]_vars

InitEstruturar == InitFuncao(FragmentosEstruturar)

\* one call of estruturar_texto, on the output of the previous call
Estruturar ==
    /\ passo < MaxAplicacoes
    /\ saida' = estruturar_texto(saida)
    /\ anterior' = saida
    /\ passo' = passo + 1
    /\ UNCHANGED <<entrada, aplicadas>>
    /\ UNCHANGED pipeline

SpecEstruturar == InitEstruturar /\ [][Estruturar]_vars

InitValidar == InitFuncao(FragmentosValidar)

\* one call of validar_campos
Validar ==
    /\ passo = 0
    /\ saida' = validar_campos(entrada)
    /\ anterior' = saida
    /\ passo' = 1
    /\ UNCHANGED <<entrada, aplicadas>>
    /\ UNCHANGED pipeline

SpecValidar == InitValidar /\ [][Validar]_vars

(***************************************************************************)
(* Properties                                                              *)
(***************************************************************************)
\* the run ended by the return of line 170 or 172
TerminouSemExcecao == pc = "fim" /\ erro = SemErro /\ status # <<>>

\* the run ended in the handler of line 174
TerminouComExcecao == pc = "fim" /\ erro # SemErro

\* the elements of a sequence
Elementos(s) == {s[i] : i \in 1..Len(s)}

\* C1: when no page raises, the status is "Sucesso" exactly when
\* validar_campos of the joined page texts is empty; otherwise the status
\* names exactly the missing fields; the joined text is returned either way.
C1_StatusSegueValidacao ==
    TerminouSemExcecao =>
        LET unificado == Juntar(<<"\n">>, texto_final)
            faltam    == validar_campos(unificado)
        IN  /\ (status = <<"Sucesso">>) <=> (faltam = <<>>)
            /\ faltam # <<>> =>
                  /\ Head(status) = "ERRO: Campos faltantes - "
                  /\ Tail(status) = JuntarNomes(faltam)
            /\ resultado = unificado

C1_Witness ==
    /\ TerminouSemExcecao
    /\ status = <<"Sucesso">>
    /\ resultado # <<>>

\* the names of the required fields, in the order of the dictionary `campos`
NomesDosCampos == <<"NFS-e", "CNPJ Prestador", "Valor Total">>

\* position of a field name in NomesDosCampos
Ordem(nome) == CHOOSE k \in 1..Len(NomesDosCampos) : NomesDosCampos[k] = nome

\* C2: validar_campos returns exactly the required fields none of whose
\* alternative patterns matches anywhere in the text (ignoring case), in
\* specification order and without duplicates; a text with the document
\* marker and the provider identifier but no total value gives
\* ["Valor Total"].
C2_FaltantesExatos ==
    passo = 1 =>
        /\ \A k \in 1..Len(campos) :
              (campos[k].campo \in Elementos(saida)) <=>
                  (\A j \in 1..Len(campos[k].padroes) :
                      \A i \in 1..Len(entrada) :
                          ~Casar(campos[k].padroes[j], 1, entrada, i, TRUE).ok)
        /\ Elementos(saida) \subseteq Elementos(NomesDosCampos)
        /\ \A a, b \in 1..Len(saida) :
              a < b => Ordem(saida[a]) < Ordem(saida[b])
        /\ ( /\ Contem(entrada, <<"N", "F", "S", "-", "e">>)
             /\ Contem(entrada, <<"4", "9", ".", "6", "2", "1", ".", "4", "1",
                               "1", "/", "0", "0", "0", "1", "-", "9", "3">>)
             /\ ~Contem(entrada, <<"7", "5", "0">>) )
              => saida = <<"Valor Total">>

C2_Witness ==
    /\ passo = 1
    /\ Contem(entrada, <<"N", "F", "S", "-", "e">>)
    /\ Contem(entrada, <<"4", "9", ".", "6", "2", "1", ".", "4", "1", "1",
                         "/", "0", "0", "0", "1", "-", "9", "3">>)
    /\ saida = <<"Valor Total">>

RECURSIVE InicioDaPagina(_)
\* where page i starts in the joined text when one character separates the
\* pages
InicioDaPagina(i) ==
    IF i = 1 THEN 1
    ELSE InicioDaPagina(i - 1) + Len(texto_final[i - 1]) + 1

\* the structured text the pipeline makes of what the OCR gave for page i
PaginaEstruturada(i) ==
    estruturar_texto(corrigir_erros_contextuais(ocr[i].mesclado))

\* C3 as stated: the page texts are joined with a blank line (two line
\* breaks) between consecutive pages, and validated once.
C3_SeparadorLinhaEmBranco ==
    TerminouSemExcecao =>
        /\ resultado = Juntar(<<"\n", "\n">>, texto_final)
        /\ validacoes = <<resultado>>

\* C3 amended: the assembled text is the structured page texts in page
\* order, each exactly once, with exactly one line break between consecutive
\* pages and nothing before the first or after the last, and validar_campos
\* runs exactly once, on that text, after the last page.
C3_PaginasEmOrdem ==
    /\ pc # "fim" => validacoes = <<>>
    /\ TerminouSemExcecao =>
          /\ Len(texto_final) = n_imagens
          /\ Len(ocr) = n_imagens
          /\ \A i \in 1..n_imagens :
                /\ texto_final[i] = PaginaEstruturada(i)
                /\ Trecho(resultado, InicioDaPagina(i),
                          InicioDaPagina(i) + Len(texto_final[i]))
                       = texto_final[i]
                /\ i < n_imagens =>
                      resultado[InicioDaPagina(i + 1) - 1] = "\n"
          /\ Len(resultado) =
                InicioDaPagina(n_imagens) + Len(texto_final[n_imagens]) - 1
          /\ validacoes = <<resultado>>

C3_Witness ==
    /\ TerminouSemExcecao
    /\ n_imagens >= 2
    /\ texto_final[1] # texto_final[2]

\* C4 as stated: when a call raises on page k the run returns the error
\* status together with the text of the pages 1..k-1 already processed.
C4_TextoParcialDevolvido ==
    TerminouComExcecao =>
        /\ status = <<"ERRO: ", erro.msg>>
        /\ resultado = Juntar(<<"\n">>, texto_final)

\* C4 amended: when a call raises on page k the run does not raise, it
\* returns the error status carrying the message, the text returned with it
\* is empty (the pages 1..k-1 already processed are dropped), and
\* validar_campos is never run.
C4_ExcecaoDevolveVazio ==
    TerminouComExcecao =>
        /\ status = <<"ERRO: ", erro.msg>>
        /\ resultado = <<>>
        /\ validacoes = <<>>
        /\ Len(texto_final) = IF erro.pagina = 0 THEN 0 ELSE erro.pagina - 1

C4_Witness ==
    /\ TerminouComExcecao
    /\ erro.pagina >= 2
    /\ texto_final # <<>>
    /\ texto_final[1] # <<>>

\* C5 as stated: an aborting error is reported with the index of the page
\* and the name of the stage that failed.
C5_StatusCitaPaginaEEtapa ==
    (TerminouComExcecao /\ erro.pagina >= 1) =>
        /\ ToString(erro.pagina) \in Elementos(status)
        /\ erro.etapa \in Elementos(status)

\* C5 amended: an aborting error is reported by the message of the
\* exception alone, prefixed by "ERRO: "; the status holds neither the page
\* index nor the name of the failing stage.
C5_StatusSoMensagem ==
    TerminouComExcecao =>
        /\ Len(status) = 2
        /\ status[1] = "ERRO: "
        /\ status[2] \in Mensagens[erro.etapa]
        /\ ToString(erro.pagina) \notin Elementos(status)
        /\ erro.etapa \notin Elementos(status)

C5_Witness ==
    /\ TerminouComExcecao
    /\ erro.pagina = 2
    /\ erro.etapa = "preprocessamento_avancado"

\* C6: when the secondary pass ran and both texts hold the currency marker,
\* the merged text keeps the primary text's marker and takes only the value
\* after the secondary's last marker: "Total R$ XXXX" merged with
\* "garbage R$ 750,00" is "Total R$ 750,00".
C6_MesclaMantemMarcador ==
    \A i \in 1..Len(ocr) :
        ( /\ ocr[i].secundario
          /\ Contem(ocr[i].texto, MARCADOR)
          /\ Contem(ocr[i].texto_numerico, MARCADOR) )
        => /\ Contem(ocr[i].mesclado, MARCADOR)
           /\ ( /\ ocr[i].texto = <<"T", "o", "t", "a", "l", " ", "R", "$",
                                  " ", "X", "X", "X", "X">>
                /\ ocr[i].texto_numerico =
                       <<"g", "a", "r", "b", "a", "g", "e", " ", "R", "$",
                         " ", "7", "5", "0", ",", "0", "0">> )
              => ocr[i].mesclado =
                     <<"T", "o", "t", "a", "l", " ", "R", "$", " ", "7",
                       "5", "0", ",", "0", "0">>

\* C7: when the secondary pass ran and the secondary text holds no currency
\* marker, every marker of the primary text is still there in the merged
\* text, followed by the whole secondary text.
C7_MesclaAcrescentaDepoisDoMarcador ==
    \A i \in 1..Len(ocr) :
        ( /\ ocr[i].secundario
          /\ Contem(ocr[i].texto, MARCADOR)
          /\ ~Contem(ocr[i].texto_numerico, MARCADOR) )
        => ocr[i].mesclado =
               Replace(ocr[i].texto, MARCADOR,
                       MARCADOR \o ocr[i].texto_numerico)

\* the literals the section and key-label rules of estruturar_texto look for
ROTULOS ==
    {
        <<"P", "R", "E", "S", "T", "A", "D", "O", "R", " ", "D", "E", " ",
          "S", "E", "R", "V", "I", "Ç", "O", "S">>,
        <<"T", "O", "M", "A", "D", "O", "R", " ", "D", "E", " ", "S", "E",
          "R", "V", "I", "Ç", "O", "S">>,
        <<"D", "I", "S", "C", "R", "I", "M", "I", "N", "A", "Ç", "Ã", "O",
          " ", "D", "O", "S", " ", "S", "E", "R", "V", "I", "Ç", "O", "S">>,
        <<"N", "ú", "m", "e", "r", "o", " ", "d", "a", " ", "N", "o", "t",
          "a">>,
        <<"D", "a", "t", "a", " ", "e", " ", "H", "o", "r", "a", " ", "d",
          "e", " ", "E", "m", "i", "s", "s", "ã", "o">>,
        <<"C", "ó", "d", "i", "g", "o", " ", "d", "e", " ", "V", "e", "r",
          "i", "f", "i", "c", "a", "ç", "ã", "o">>
    }

SemRotulo(t) == \A r \in ROTULOS : ~Contem(t, r)

\* C8 as stated: applying estruturar_texto twice gives what applying it
\* once gives, for every text.
C8_Idempotente == passo >= 2 => saida = anterior

\* C8 amended: applying estruturar_texto twice gives what applying it once
\* gives for every text that holds none of the three section headers and
\* none of the three key labels (list markers and currency markers are
\* allowed).
C8_IdempotenteSemRotulo ==
    (passo >= 2 /\ SemRotulo(entrada)) => saida = anterior

C8_Witness ==
    /\ passo = 2
    /\ SemRotulo(entrada)
    /\ Contem(entrada, MARCADOR)
    /\ anterior # entrada
    /\ saida = anterior

\* the category the specification gives each rule of `correcoes`:
\* 1 exact-anchor literal, 2 general date shape, 3 general numeric shape,
\* 4 domain term
CATEGORIA == <<1, 1, 2, 1, 1, 1, 3, 1, 3, 4, 4, 4, 4>>

\* C9 as stated: no rule of a later category is applied before a rule of an
\* earlier category.
C9_CategoriasEmOrdem ==
    \A a, b \in 1..Len(aplicadas) :
        a < b => CATEGORIA[aplicadas[a]] <= CATEGORIA[aplicadas[b]]

\* C9 amended: every rule is applied exactly once, each to the output of
\* the previous one, in the order of the list `correcoes`: the two literal
\* dates, the general date repair, the verification-code rules, the literal
\* CNPJ, the first numeric repair, the literal amount, the numeric format
\* repair, then the domain terms.
C9_RegrasNaOrdemDaLista ==
    /\ aplicadas = [k \in 1..passo |-> k]
    /\ passo >= 1 =>
          saida = Sub(correcoes[aplicadas[passo]], anterior, TRUE)
    /\ passo = Len(correcoes) =>
          /\ saida = corrigir_erros_contextuais(entrada)
          /\ [k \in 1..passo |-> CATEGORIA[aplicadas[k]]] = CATEGORIA

C9_Witness ==
    /\ passo = Len(correcoes)
    /\ saida # entrada
    /\ Contem(entrada, <<"1", "6", "/", "0", "/", "2", "0", "2", "4">>)
    /\ Contem(saida, <<"1", "6", "/", "0", "9", "/", "2", "0", "2", "4">>)

\* C10: the secondary pass runs for a page exactly when the primary text
\* holds 'R$', 'CNPJ' or 'CPF'; when it does not run, and when it runs but
\* the primary text holds no 'R$', the text given to the repair stage is the
\* primary text unchanged.
C10_SecundarioSoComGatilho ==
    \A i \in 1..Len(ocr) :
        LET gatilho == \/ Contem(ocr[i].texto, <<"R", "$">>)
                       \/ Contem(ocr[i].texto, <<"C", "N", "P", "J">>)
                       \/ Contem(ocr[i].texto, <<"C", "P", "F">>)
        IN  /\ ocr[i].secundario <=> gatilho
            /\ ~ocr[i].secundario => ocr[i].texto_numerico = <<>>
            /\ (~ocr[i].secundario \/ ~Contem(ocr[i].texto, <<"R", "$">>))
                  => ocr[i].mesclado = ocr[i].texto

C10_Witness ==
    \E i \in 1..Len(ocr) :
        /\ ocr[i].secundario
        /\ ocr[i].texto_numerico # <<>>
        /\ ~Contem(ocr[i].texto, <<"R", "$">>)
        /\ ocr[i].mesclado = ocr[i].texto

====
